---------------------------- MODULE Spec2Model ----------------------------
(***************************************************************************)
(* Model of the marketplace synchronisation scripts seller.py (Marketplace *)
(* A, Ozon) and market.py (Marketplace B, Yandex Market).                   *)
(*                                                                         *)
(* Python strings whose characters matter (quantities, prices) are         *)
(* sequences of one-character strings; identifiers that are only compared  *)
(* for equality (vendor codes, offer ids) are TLA+ strings.  Python lists   *)
(* are sequences; list index i of Python is index i+1 here.                 *)
(***************************************************************************)
EXTENDS Integers, Sequences, FiniteSets, TLC

VARIABLES
    call,            \* harness: the function applied last ("none" before)
    args,            \* harness: the arguments it was applied to
    ret,             \* harness: its outcome (error, result, argument lists after)
    pc,              \* main: the statement about to run
    channel,         \* main: the channel (campaign) being synchronised
    feed,            \* environment: the rows the vendor spreadsheet holds
    catalog,         \* environment: channel -> offer ids the platform lists
    watch_remnants,  \* main: local watch_remnants
    offer_ids,       \* main: local offer_ids (the list object itself)
    stocks,          \* main: local stocks
    prices,          \* main: local prices of the code that builds the price list
    todo,            \* main: batches of the running for loop not yet submitted
    sent,            \* every HTTP request issued so far, in order
    log,             \* what the except clauses printed ("none" if nothing)
    product_list,    \* get_offer_ids: local product_list (items by offer id)
    page,            \* get_offer_ids: local last_id (seller) or page (market)
    total            \* get_offer_ids: local total (seller)

harnessVars == <<call, args, ret>>
fetchVars == <<product_list, page, total>>
mainVars == <<pc, channel, feed, catalog, watch_remnants, offer_ids, stocks, prices,
              todo, sent, log, fetchVars>>
vars == <<call, args, ret, pc, channel, feed, catalog, watch_remnants, offer_ids,
          stocks, prices, todo, sent, log, product_list, page, total>>

-----------------------------------------------------------------------------
(* Bounds of the model *)

MaxRows == 2        \* vendor rows in a feed
MaxIds == 2         \* offer ids in a catalog
MaxLen == 4         \* length of a list given to divide
MaxN == 2           \* divide is tried with every n in -MaxN .. MaxN + 1
MaxPriceLen == 3    \* characters of a price given to price_conversion

-----------------------------------------------------------------------------
(* Generic list helpers *)

SeqUpTo(S, k) == UNION {[1..m -> S] : m \in 0..k}

Min(a, b) == IF a < b THEN a ELSE b

RECURSIVE Concat(_)
Concat(ss) == IF ss = <<>> THEN <<>> ELSE Head(ss) \o Concat(Tail(ss))

\* number of entries of list equal to x
Occurrences(list, x) == Cardinality({i \in 1..Len(list) : list[i] = x})

\* Python: x in list
InAnyList(x, list) == TRUE

In(x, list) == \E i \in 1..Len(list) : list[i] = x

\* Python: list.remove(x), removes the first entry equal to x
\* (only called under the guard `x in list`)
ListRemoveNothing(list, x) == list

ListRemove(list, x) ==
    LET i == CHOOSE j \in 1..Len(list) :
                 list[j] = x /\ \A k \in 1..(j - 1) : list[k] # x
    IN  SubSeq(list, 1, i - 1) \o SubSeq(list, i + 1, Len(list))

-----------------------------------------------------------------------------
(* Character strings *)

Digits == {"0", "1", "2", "3", "4", "5", "6", "7", "8", "9"}

DigitVal(c) ==
    CASE c = "0" -> 0 [] c = "1" -> 1 [] c = "2" -> 2 [] c = "3" -> 3
      [] c = "4" -> 4 [] c = "5" -> 5 [] c = "6" -> 6 [] c = "7" -> 7
      [] c = "8" -> 8 [] c = "9" -> 9

AllDigits(s) == \A i \in 1..Len(s) : s[i] \in Digits

RECURSIVE DecimalValue(_)
DecimalValue(s) ==
    IF s = <<>> THEN 0
    ELSE 10 * DecimalValue(SubSeq(s, 1, Len(s) - 1)) + DigitVal(s[Len(s)])

\* Python: int(s) for a str s over the model's alphabet (no blanks, no
\* underscores): an optional sign followed by at least one digit, else
\* ValueError.
IntParses(s) ==
    /\ s # <<>>
    /\ LET body == IF s[1] \in {"-", "+"} THEN Tail(s) ELSE s
       IN  body # <<>> /\ AllDigits(body)

IntOf(s) ==
    IF s[1] = "-" THEN 0 - DecimalValue(Tail(s))
    ELSE IF s[1] = "+" THEN DecimalValue(Tail(s))
    ELSE DecimalValue(s)

\* Python: re.sub("[^0-9]", "", s)
RECURSIVE DigitsOnly(_)
DigitsOnly(s) ==
    IF s = <<>> THEN <<>>
    ELSE IF Head(s) \in Digits THEN <<Head(s)>> \o DigitsOnly(Tail(s))
         ELSE DigitsOnly(Tail(s))

\* Python: s.split(".")[0], the characters before the first "." and the
\* whole string when it holds no "." (split then returns [s])
SplitDotFirst(s) ==
    IF \E i \in 1..Len(s) : s[i] = "."
    THEN LET i == CHOOSE j \in 1..Len(s) :
                      s[j] = "." /\ \A k \in 1..(j - 1) : s[k] # "."
         IN  SubSeq(s, 1, i - 1)
    ELSE s

-----------------------------------------------------------------------------
(* seller.py: price_conversion and divide *)

\* price is a str; the indexing [0] of a split result never fails
price_conversion(price) ==
    [err |-> "none", value |-> DigitsOnly(SplitDotFirst(price))]

\* Python: range(0, stop, step) as the list of its values, step # 0
RangeFromZero(stop, step) ==
    IF step > 0
    THEN [k \in 1..((stop + step - 1) \div step) |-> (k - 1) * step]
    ELSE <<>>

\* Python: lst[i:j] for 0 <= i <= j
SliceOneMore(lst, i, j) == SubSeq(lst, i + 1, Min(j + 1, Len(lst)))

Slice(lst, i, j) == SubSeq(lst, i + 1, Min(j, Len(lst)))

\* list(divide(lst, n)): the generator's body runs when it is iterated;
\* range() raises ValueError for a zero step
divide(lst, n) ==
    IF n = 0 THEN [err |-> "ValueError", chunks |-> <<>>]
    ELSE LET starts == RangeFromZero(Len(lst), n)
         IN  [err |-> "none",
              chunks |-> [k \in 1..Len(starts) |->
                             Slice(lst, starts[k], starts[k] + n)]]

-----------------------------------------------------------------------------
(* Vendor rows.  A row is the dict of one spreadsheet line; only the three *)
(* columns the code reads are kept: code, count, price.  The code column is *)
(* passed through str(); codes are strings here, on which str() is the      *)
(* identity.                                                                *)

GT10 == <<">", "1", "0">>
ONE == <<"1">>

\* the quantity rule of create_stocks (both files): str(count) == ">10"
\* gives 100, == "1" gives 0, anything else goes through int()
StockParses(count) == count = GT10 \/ count = ONE \/ IntParses(count)

StockCountTen(count) ==
    IF count = GT10 THEN 10 ELSE IF count = ONE THEN 0 ELSE IntOf(count)

StockCount(count) ==
    IF count = GT10 THEN 100 ELSE IF count = ONE THEN 0 ELSE IntOf(count)

-----------------------------------------------------------------------------
(* seller.py: create_stocks, create_prices *)

\* One outcome of create_stocks: the exception raised ("none" on return),
\* the list built, and the offer_ids list object as the call leaves it.
\* The first loop, rows i .. Len(rows):
RECURSIVE seller_match_rows(_, _, _, _)
seller_match_rows(rows, i, ids, acc) ==
    IF i > Len(rows) THEN [err |-> "none", stocks |-> acc, offer_ids |-> ids]
    ELSE LET watch == rows[i] IN
         IF In(watch.code, ids)
         THEN IF StockParses(watch.count)
              THEN seller_match_rows(rows, i + 1,
                       ListRemove(ids, watch.code),
                       Append(acc, [offer_id |-> watch.code,
                                    stock |-> StockCount(watch.count)]))
              ELSE [err |-> "ValueError", stocks |-> acc, offer_ids |-> ids]
         ELSE seller_match_rows(rows, i + 1, ids, acc)

\* The second loop: one zero record per id left in offer_ids
seller_zero_stocks_reversed(ids) ==
    [k \in 1..Len(ids) |-> [offer_id |-> ids[Len(ids) + 1 - k], stock |-> 0]]

seller_zero_stocks(ids) ==
    [k \in 1..Len(ids) |-> [offer_id |-> ids[k], stock |-> 0]]

seller_create_stocks(rows, ids) ==
    LET r == seller_match_rows(rows, 1, ids, <<>>) IN
    IF r.err # "none" THEN r
    ELSE [r EXCEPT !.stocks = r.stocks \o seller_zero_stocks(r.offer_ids)]

seller_price_record(watch) ==
    [auto_action_enabled |-> "UNKNOWN",
     currency_code |-> "RUB",
     offer_id |-> watch.code,
     old_price |-> "0",
     price |-> price_conversion(watch.price).value]

RECURSIVE seller_price_rows(_, _, _, _)
seller_price_rows(rows, i, ids, acc) ==
    IF i > Len(rows) THEN [err |-> "none", prices |-> acc, offer_ids |-> ids]
    ELSE LET watch == rows[i] IN
         IF In(watch.code, ids)
         THEN seller_price_rows(rows, i + 1, ids,
                                Append(acc, seller_price_record(watch)))
         ELSE seller_price_rows(rows, i + 1, ids, acc)

seller_create_prices(rows, ids) == seller_price_rows(rows, 1, ids, <<>>)

-----------------------------------------------------------------------------
(* market.py: create_stocks, create_prices *)

Now == "utcnow"     \* the timestamp taken once per create_stocks call

market_stock_record(sku, warehouse_id, count) ==
    [sku |-> sku,
     warehouseId |-> warehouse_id,
     items |-> <<[count |-> count, type |-> "FIT", updatedAt |-> Now]>>]

RECURSIVE market_match_rows(_, _, _, _, _)
market_match_rows(rows, i, ids, warehouse_id, acc) ==
    IF i > Len(rows) THEN [err |-> "none", stocks |-> acc, offer_ids |-> ids]
    ELSE LET watch == rows[i] IN
         IF In(watch.code, ids)
         THEN IF StockParses(watch.count)
              THEN market_match_rows(rows, i + 1,
                       ListRemove(ids, watch.code), warehouse_id,
                       Append(acc, market_stock_record(watch.code,
                                       warehouse_id, StockCount(watch.count))))
              ELSE [err |-> "ValueError", stocks |-> acc, offer_ids |-> ids]
         ELSE market_match_rows(rows, i + 1, ids, warehouse_id, acc)

market_zero_stocks(ids, warehouse_id) ==
    [k \in 1..Len(ids) |-> market_stock_record(ids[k], warehouse_id, 0)]

market_create_stocks(rows, ids, warehouse_id) ==
    LET r == market_match_rows(rows, 1, ids, warehouse_id, <<>>) IN
    IF r.err # "none" THEN r
    ELSE [r EXCEPT !.stocks =
              r.stocks \o market_zero_stocks(r.offer_ids, warehouse_id)]

\* int(price_conversion(price)) raises ValueError when no digit is left
market_price_parses(watch) == price_conversion(watch.price).value # <<>>

market_price_record(watch) ==
    [id |-> watch.code,
     price |-> [value |-> DecimalValue(price_conversion(watch.price).value),
                currencyId |-> "RUR"]]

RECURSIVE market_price_rows(_, _, _, _)
market_price_rows(rows, i, ids, acc) ==
    IF i > Len(rows) THEN [err |-> "none", prices |-> acc, offer_ids |-> ids]
    ELSE LET watch == rows[i] IN
         IF In(watch.code, ids)
         THEN IF market_price_parses(watch)
              THEN market_price_rows(rows, i + 1, ids,
                                     Append(acc, market_price_record(watch)))
              ELSE [err |-> "ValueError", prices |-> acc, offer_ids |-> ids]
         ELSE market_price_rows(rows, i + 1, ids, acc)

market_create_prices(rows, ids) == market_price_rows(rows, 1, ids, <<>>)

-----------------------------------------------------------------------------
(* Inputs *)

Codes == {"A", "B", "C"}
Warehouses == {"W_FBS", "W_DBS"}

\* ">10", "1", "7", "12", "x7" and the empty cell
Quantities == {GT10, ONE, <<"7">>, <<"1", "2">>, <<"x", "7">>, <<>>}

\* "5'9.0" (digits 59), "x.0" (no digit before the point), "70" (no point)
RowPrices == {<<"5", "'", "9", ".", "0">>, <<"x", ".", "0">>, <<"7", "0">>}

StockRows == [code : Codes, count : Quantities, price : {<<"7", "0">>}]
PriceRows == [code : Codes, count : {ONE}, price : RowPrices]

Items == {"a", "b"}
PriceAlphabet == {".", "5", "0", "'", "x"}

-----------------------------------------------------------------------------
(* Function harness: one call of one function on arguments drawn at Init *)

FetchIdle == product_list = <<>> /\ page = "" /\ total = 0

MainIdle ==
    /\ FetchIdle
    /\ pc = "idle"
    /\ channel = "none"
    /\ feed = <<>>
    /\ catalog = <<>>
    /\ watch_remnants = <<>>
    /\ offer_ids = <<>>
    /\ stocks = <<>>
    /\ prices = <<>>
    /\ todo = <<>>
    /\ sent = <<>>
    /\ log = "none"

HarnessIdle == call = "idle" /\ args = <<>> /\ ret = <<>>

InitStocks ==
    /\ call = "none"
    /\ args \in [watch_remnants : SeqUpTo(StockRows, MaxRows),
                 offer_ids : SeqUpTo(Codes, MaxIds)]
    /\ ret = <<>>
    /\ MainIdle

InitPrices ==
    /\ call = "none"
    /\ args \in [watch_remnants : SeqUpTo(PriceRows, MaxRows),
                 offer_ids : SeqUpTo(Codes, MaxIds)]
    /\ ret = <<>>
    /\ MainIdle

InitDivide ==
    /\ call = "none"
    /\ args \in [lst : SeqUpTo(Items, MaxLen), n : (0 - MaxN)..(MaxN + 1)]
    /\ ret = <<>>
    /\ MainIdle

InitPriceConversion ==
    /\ call = "none"
    /\ args \in [price : SeqUpTo(PriceAlphabet, MaxPriceLen)]
    /\ ret = <<>>
    /\ MainIdle

CallSellerCreateStocks ==
    /\ call = "none"
    /\ call' = "seller.create_stocks"
    /\ ret' = seller_create_stocks(args.watch_remnants, args.offer_ids)
    /\ UNCHANGED <<args, mainVars>>

CallMarketCreateStocks ==
    /\ call = "none"
    /\ call' = "market.create_stocks"
    /\ \E w \in Warehouses :
           ret' = market_create_stocks(args.watch_remnants, args.offer_ids, w)
    /\ UNCHANGED <<args, mainVars>>

CallSellerCreatePrices ==
    /\ call = "none"
    /\ call' = "seller.create_prices"
    /\ ret' = seller_create_prices(args.watch_remnants, args.offer_ids)
    /\ UNCHANGED <<args, mainVars>>

CallMarketCreatePrices ==
    /\ call = "none"
    /\ call' = "market.create_prices"
    /\ ret' = market_create_prices(args.watch_remnants, args.offer_ids)
    /\ UNCHANGED <<args, mainVars>>

CallDivide ==
    /\ call = "none"
    /\ call' = "divide"
    /\ ret' = divide(args.lst, args.n)
    /\ UNCHANGED <<args, mainVars>>

CallPriceConversion ==
    /\ call = "none"
    /\ call' = "price_conversion"
    /\ ret' = price_conversion(args.price)
    /\ UNCHANGED <<args, mainVars>>

NextStocks == CallSellerCreateStocks \/ CallMarketCreateStocks
NextPrices == CallSellerCreatePrices \/ CallMarketCreatePrices

SpecStocks == InitStocks /\ [][NextStocks]_vars
SpecPrices == InitPrices /\ [][NextPrices]_vars
SpecDivide == InitDivide /\ [][CallDivide]_vars
SpecPriceConversion == InitPriceConversion /\ [][CallPriceConversion]_vars

-----------------------------------------------------------------------------
(* Properties of create_stocks *)

NoDuplicates(list) ==
    \A i, j \in 1..Len(list) : list[i] = list[j] => i = j

StocksCalled == call \in {"seller.create_stocks", "market.create_stocks"}
StocksReturned == StocksCalled /\ ret.err = "none"

\* offer id and count of the k-th record returned, whatever the marketplace
StockId(k) ==
    IF call = "seller.create_stocks" THEN ret.stocks[k].offer_id
    ELSE ret.stocks[k].sku

StockValue(k) ==
    IF call = "seller.create_stocks" THEN ret.stocks[k].stock
    ELSE ret.stocks[k].items[1].count

StockIds == [k \in 1..Len(ret.stocks) |-> StockId(k)]

\* Row i of V is matched against K: K holds more entries of its code than
\* there are earlier rows of that code.
RowIsMatched(V, K, i) ==
    Occurrences(K, V[i].code) >
        Cardinality({j \in 1..(i - 1) : V[j].code = V[i].code})

\* Entry j of K is matched by no row: it is preceded in K by at least as
\* many entries of its id as V has rows of that code.
EntryIsLeft(V, K, j) ==
    Cardinality({m \in 1..j : K[m] = K[j]}) >
        Cardinality({i \in 1..Len(V) : V[i].code = K[j]})

MatchedRows(V, K) ==
    LET idx == SelectSeq([i \in 1..Len(V) |-> i],
                         LAMBDA i : RowIsMatched(V, K, i))
    IN  [k \in 1..Len(idx) |-> V[idx[k]]]

LeftIds(V, K) ==
    LET idx == SelectSeq([j \in 1..Len(K) |-> j],
                         LAMBDA j : EntryIsLeft(V, K, j))
    IN  [k \in 1..Len(idx) |-> K[idx[k]]]

\* the quantity rule as section 4.1 of the specification states it
NormalizedQuantity(q) ==
    CASE q = GT10 -> 100
      [] q = ONE -> 0
      [] OTHER -> IntOf(q)

\* C1: when create_stocks (either marketplace) returns for a duplicate-free
\* list K of known offer ids, every id of K is the id of exactly one record
\* returned and no other id is the id of any record, whatever rows V holds
\* (several rows of one code, rows whose code is not in K).
TheoremC1 ==
    (StocksReturned /\ NoDuplicates(args.offer_ids)) =>
        /\ \A c \in Codes :
               Occurrences(StockIds, c) =
                   (IF In(c, args.offer_ids) THEN 1 ELSE 0)
        /\ \A k \in 1..Len(StockIds) : In(StockIds[k], args.offer_ids)

WitnessC1 ==
    /\ StocksReturned
    /\ NoDuplicates(args.offer_ids)
    /\ Len(args.offer_ids) = 2
    /\ Len(args.watch_remnants) = 2
    /\ args.watch_remnants[1].code = args.watch_remnants[2].code
    /\ In(args.watch_remnants[1].code, args.offer_ids)
    /\ Len(ret.stocks) = 2

\* C2: the list create_stocks returns is the records of the vendor rows
\* matched against K, in feed order and each with the normalized quantity
\* of its row, followed by one zero-count record for every entry of K that
\* no vendor row matched, in the order of K.
TheoremC2 ==
    StocksReturned =>
        LET V == args.watch_remnants
            K == args.offer_ids
            M == MatchedRows(V, K)
            L == LeftIds(V, K)
        IN  /\ Len(ret.stocks) = Len(M) + Len(L)
            /\ \A k \in 1..Len(M) :
                   /\ StockId(k) = M[k].code
                   /\ StockValue(k) = NormalizedQuantity(M[k].count)
            /\ \A k \in 1..Len(L) :
                   /\ StockId(Len(M) + k) = L[k]
                   /\ StockValue(Len(M) + k) = 0

WitnessC2 ==
    /\ call = "market.create_stocks"
    /\ ret.err = "none"
    /\ Len(args.offer_ids) = 2
    /\ NoDuplicates(args.offer_ids)
    /\ Len(args.watch_remnants) = 2
    /\ args.watch_remnants[1].code = args.offer_ids[2]
    /\ args.watch_remnants[1].count = GT10
    /\ ~In(args.watch_remnants[2].code, args.offer_ids)
    /\ Len(ret.stocks) = 2
    /\ ret.stocks[1].items[1].count = 100
    /\ ret.stocks[2].sku = args.offer_ids[1]

\* C9: for every matched vendor row the count create_stocks emits is 100
\* for the quantity ">10", 0 for "1" and the base-10 integer value of the
\* quantity otherwise; when a matched row's quantity is none of these and
\* not numeric, create_stocks raises ValueError and returns no list.
TheoremC9 ==
    StocksCalled =>
        LET V == args.watch_remnants
            K == args.offer_ids
            M == MatchedRows(V, K)
        IN  /\ ret.err = "none" =>
                \A k \in 1..Len(M) :
                    /\ M[k].count = GT10 => StockValue(k) = 100
                    /\ M[k].count = ONE => StockValue(k) = 0
                    /\ M[k].count \notin {GT10, ONE} =>
                           /\ IntParses(M[k].count)
                           /\ StockValue(k) = IntOf(M[k].count)
            /\ (\E k \in 1..Len(M) :
                    M[k].count \notin {GT10, ONE} /\ ~IntParses(M[k].count))
                   => ret.err = "ValueError"

WitnessC9 ==
    /\ call = "seller.create_stocks"
    /\ ret.err = "none"
    /\ Len(args.watch_remnants) = 2
    /\ args.watch_remnants[1].count = GT10
    /\ args.watch_remnants[2].count = <<"1", "2">>
    /\ Len(ret.stocks) = 2
    /\ ret.stocks[1].stock = 100
    /\ ret.stocks[2].stock = 12

WitnessC9Fails ==
    /\ call = "market.create_stocks"
    /\ ret.err = "ValueError"
    /\ Len(args.watch_remnants) = 2
    /\ args.watch_remnants[1].count = ONE
    /\ args.watch_remnants[2].count = <<"x", "7">>

-----------------------------------------------------------------------------
(* Properties of create_prices *)

PricesCalled == call \in {"seller.create_prices", "market.create_prices"}
PricesReturned == PricesCalled /\ ret.err = "none"

PriceId(k) ==
    IF call = "seller.create_prices" THEN ret.prices[k].offer_id
    ELSE ret.prices[k].id

\* the vendor rows whose code is an entry of K, in feed order
RowsInCatalog(V, K) ==
    SelectSeq(V, LAMBDA row : \E j \in 1..Len(K) : K[j] = row.code)

\* C10: the list create_prices returns holds exactly one record for each
\* vendor row whose code is in K, in feed order, and none for any other
\* row; so its offer ids are ids of K and codes of V, and an id of K absent
\* from V gets no record.
TheoremC10 ==
    PricesReturned =>
        LET V == args.watch_remnants
            K == args.offer_ids
            R == RowsInCatalog(V, K)
        IN  /\ Len(ret.prices) = Len(R)
            /\ \A k \in 1..Len(R) : PriceId(k) = R[k].code
            /\ \A k \in 1..Len(ret.prices) :
                   /\ \E j \in 1..Len(K) : K[j] = PriceId(k)
                   /\ \E i \in 1..Len(V) : V[i].code = PriceId(k)
            /\ \A j \in 1..Len(K) :
                   (\A i \in 1..Len(V) : V[i].code # K[j]) =>
                       \A k \in 1..Len(ret.prices) : PriceId(k) # K[j]

WitnessC10 ==
    /\ call = "market.create_prices"
    /\ ret.err = "none"
    /\ Len(args.watch_remnants) = 2
    /\ Len(args.offer_ids) = 2
    /\ args.watch_remnants[1].code \notin
           {args.offer_ids[1], args.offer_ids[2]}
    /\ args.watch_remnants[2].code = args.offer_ids[2]
    /\ args.offer_ids[1] # args.offer_ids[2]
    /\ Len(ret.prices) = 1
    /\ ret.prices[1].id = args.offer_ids[2]

-----------------------------------------------------------------------------
(* Properties of divide *)

\* C6: for n > 0, divide(items, n) yields chunk k = items[(k-1)n : kn]:
\* the chunks are contiguous and disjoint, their concatenation is items,
\* every chunk but the last has length n, the last has length 1..n, and
\* the empty list yields no chunk.
TheoremC6 ==
    (call = "divide" /\ args.n > 0) =>
        LET lst == args.lst
            n == args.n
            c == ret.chunks
        IN  /\ ret.err = "none"
            /\ Concat(c) = lst
            /\ \A k \in 1..Len(c) :
                   c[k] = SubSeq(lst, (k - 1) * n + 1, Min(k * n, Len(lst)))
            /\ \A k \in 1..(Len(c) - 1) : Len(c[k]) = n
            /\ Len(c) > 0 => Len(c[Len(c)]) \in 1..n
            /\ lst = <<>> => c = <<>>

WitnessC6 ==
    /\ call = "divide"
    /\ args.n = 2
    /\ Len(args.lst) = 3
    /\ Len(ret.chunks) = 2
    /\ Len(ret.chunks[1]) = 2
    /\ Len(ret.chunks[2]) = 1

\* C7: divide(items, n) fails with an invalid-argument error for every
\* n <= 0, zero and negative, and every list; it yields no chunk and does
\* not complete normally.
ClaimC7 ==
    (call = "divide" /\ args.n <= 0) =>
        (ret.err = "ValueError" /\ ret.chunks = <<>>)

-----------------------------------------------------------------------------
(* Properties of price_conversion *)

HasDot(s) == \E i \in 1..Len(s) : s[i] = "."

\* the characters of s before its first "."
BeforeFirstDot(s) ==
    LET i == CHOOSE j \in 1..Len(s) :
                 s[j] = "." /\ \A k \in 1..(j - 1) : s[k] # "."
    IN  SubSeq(s, 1, i - 1)

\* C8: price_conversion fails with a format error for every string that
\* holds no "."; it returns only for strings holding a ".", and then the
\* digits of the part before the first ".", in order.
ClaimC8 ==
    call = "price_conversion" =>
        /\ ~HasDot(args.price) => ret.err # "none"
        /\ ret.err = "none" =>
               /\ HasDot(args.price)
               /\ ret.value =
                      SelectSeq(BeforeFirstDot(args.price),
                                LAMBDA ch : ch \in Digits)

-----------------------------------------------------------------------------
(* The orchestrators.  A step is one HTTP request or one reconciliation;   *)
(* a request either answers or raises one of the requests exceptions.       *)

SellerStockBatch == 100
SellerPriceBatch == 900
MarketStockBatch == 2000
MarketPriceBatch == 500

MainCodes == {"A", "B"}
MainRows == [code : MainCodes,
             count : {<<"7">>, <<"x", "7">>},
             price : {<<"5", "'", "9", ".", "0">>}]

Failures == {"ReadTimeout", "ConnectionError", "HTTPError"}
Outcomes == {"ok"} \cup Failures

\* what the except clauses of main print for an exception
Printed(exc) ==
    CASE exc = "ReadTimeout" -> "timeout"
      [] exc = "ConnectionError" -> "connection"
      [] OTHER -> "ERROR_2"

Request(req, ch, body, outcome) ==
    [req |-> req, channel |-> ch, body |-> body, ok |-> outcome = "ok"]

-----------------------------------------------------------------------------
(* seller.main *)

InitSeller ==
    /\ HarnessIdle
    /\ FetchIdle
    /\ pc = "get_offer_ids"
    /\ channel = "OZON"
    /\ feed \in SeqUpTo(MainRows, MaxRows)
    /\ catalog \in [{"OZON"} -> SeqUpTo(MainCodes, MaxIds)]
    /\ watch_remnants = <<>>
    /\ offer_ids = <<>>
    /\ stocks = <<>>
    /\ prices = <<>>
    /\ todo = <<>>
    /\ sent = <<>>
    /\ log = "none"

\* offer_ids = get_offer_ids(client_id, seller_token); a catalog within the
\* page limit is listed by one get_product_list request
SellerGetOfferIds ==
    /\ pc = "get_offer_ids"
    /\ \E o \in Outcomes :
        /\ sent' = Append(sent, Request("get_product_list", channel, <<>>, o))
        /\ IF o = "ok"
           THEN /\ offer_ids' = catalog[channel]
                /\ pc' = "download_stock"
                /\ log' = log
           ELSE /\ offer_ids' = offer_ids
                /\ pc' = "done"
                /\ log' = Printed(o)
    /\ UNCHANGED <<channel, feed, catalog, watch_remnants, stocks, prices,
                   todo, harnessVars, fetchVars>>

\* watch_remnants = download_stock()
SellerDownloadStock ==
    /\ pc = "download_stock"
    /\ \E o \in Outcomes :
        /\ sent' = Append(sent, Request("download_stock", "vendor", <<>>, o))
        /\ IF o = "ok"
           THEN /\ watch_remnants' = feed
                /\ pc' = "create_stocks"
                /\ log' = log
           ELSE /\ watch_remnants' = watch_remnants
                /\ pc' = "done"
                /\ log' = Printed(o)
    /\ UNCHANGED <<channel, feed, catalog, offer_ids, stocks, prices, todo,
                   harnessVars, fetchVars>>

\* stocks = create_stocks(watch_remnants, offer_ids) and the list(divide())
\* of the for statement; create_stocks works on main's own list object
SellerCreateStocks ==
    /\ pc = "create_stocks"
    /\ LET r == seller_create_stocks(watch_remnants, offer_ids) IN
        /\ offer_ids' = r.offer_ids
        /\ IF r.err = "none"
           THEN /\ stocks' = r.stocks
                /\ todo' = divide(r.stocks, SellerStockBatch).chunks
                /\ pc' = IF todo' = <<>> THEN "create_prices"
                         ELSE "update_stocks"
                /\ log' = log
           ELSE /\ stocks' = stocks
                /\ todo' = todo
                /\ pc' = "done"
                /\ log' = Printed(r.err)
    /\ UNCHANGED <<channel, feed, catalog, watch_remnants, prices, sent,
                   harnessVars, fetchVars>>

\* update_stocks(some_stock, client_id, seller_token), one loop iteration
SellerUpdateStocksRetry ==
    /\ pc = "update_stocks"
    /\ \E o \in Outcomes :
        /\ sent' = Append(sent, Request("update_stocks", channel, Head(todo), o))
        /\ IF o = "ok"
           THEN /\ todo' = Tail(todo)
                /\ pc' = IF todo' = <<>> THEN "create_prices"
                         ELSE "update_stocks"
           ELSE /\ todo' = todo
                /\ pc' = pc
        /\ log' = log
    /\ UNCHANGED <<channel, feed, catalog, watch_remnants, offer_ids, stocks,
                   prices, harnessVars, fetchVars>>

SellerUpdateStocks ==
    /\ pc = "update_stocks"
    /\ \E o \in Outcomes :
        /\ sent' = Append(sent, Request("update_stocks", channel, Head(todo), o))
        /\ IF o = "ok"
           THEN /\ todo' = Tail(todo)
                /\ pc' = IF todo' = <<>> THEN "create_prices"
                         ELSE "update_stocks"
                /\ log' = log
           ELSE /\ todo' = todo
                /\ pc' = "done"
                /\ log' = Printed(o)
    /\ UNCHANGED <<channel, feed, catalog, watch_remnants, offer_ids, stocks,
                   prices, harnessVars, fetchVars>>

\* prices = create_prices(watch_remnants, offer_ids) and the list(divide())
SellerCreatePrices ==
    /\ pc = "create_prices"
    /\ LET r == seller_create_prices(watch_remnants, offer_ids) IN
        /\ prices' = r.prices
        /\ todo' = divide(r.prices, SellerPriceBatch).chunks
        /\ pc' = IF todo' = <<>> THEN "done" ELSE "update_price"
    /\ UNCHANGED <<channel, feed, catalog, watch_remnants, offer_ids, stocks,
                   sent, log, harnessVars, fetchVars>>

\* update_price(some_price, client_id, seller_token), one loop iteration
SellerUpdatePrice ==
    /\ pc = "update_price"
    /\ \E o \in Outcomes :
        /\ sent' = Append(sent, Request("update_price", channel, Head(todo), o))
        /\ IF o = "ok"
           THEN /\ todo' = Tail(todo)
                /\ pc' = IF todo' = <<>> THEN "done" ELSE "update_price"
                /\ log' = log
           ELSE /\ todo' = todo
                /\ pc' = "done"
                /\ log' = Printed(o)
    /\ UNCHANGED <<channel, feed, catalog, watch_remnants, offer_ids, stocks,
                   prices, harnessVars, fetchVars>>

NextSeller ==
    \/ SellerGetOfferIds
    \/ SellerDownloadStock
    \/ SellerCreateStocks
    \/ SellerUpdateStocks
    \/ SellerCreatePrices
    \/ SellerUpdatePrice

SpecSeller == InitSeller /\ [][NextSeller]_vars

\* the price records of the update_price requests that were answered
RECURSIVE PushedPrices(_)
PushedPrices(reqs) ==
    IF reqs = <<>> THEN <<>>
    ELSE IF Head(reqs).req = "update_price" /\ Head(reqs).ok
         THEN Head(reqs).body \o PushedPrices(Tail(reqs))
         ELSE PushedPrices(Tail(reqs))

\* C3: in a pass of seller.main in which nothing fails, the price records
\* pushed are exactly those of the vendor rows whose code is in the catalog
\* fetched at the start of the pass, in feed order.
ClaimC3 ==
    (pc = "done" /\ log = "none") =>
        LET R == RowsInCatalog(feed, catalog["OZON"])
            P == PushedPrices(sent)
        IN  /\ Len(P) = Len(R)
            /\ \A k \in 1..Len(R) : P[k] = seller_price_record(R[k])

-----------------------------------------------------------------------------
(* market.main *)

Channels == <<"FBS", "DBS">>
WarehouseOf(ch) == IF ch = "FBS" THEN "W_FBS" ELSE "W_DBS"

InitMarket ==
    /\ HarnessIdle
    /\ FetchIdle
    /\ pc = "download_stock"
    /\ channel = Channels[1]
    /\ feed \in SeqUpTo(MainRows, MaxRows)
    /\ catalog \in [{"FBS", "DBS"} -> SeqUpTo(MainCodes, MaxIds)]
    /\ watch_remnants = <<>>
    /\ offer_ids = <<>>
    /\ stocks = <<>>
    /\ prices = <<>>
    /\ todo = <<>>
    /\ sent = <<>>
    /\ log = "none"

\* watch_remnants = download_stock(), before the try statement: an
\* exception here is caught by nothing and ends the process
MarketDownloadStock ==
    /\ pc = "download_stock"
    /\ \E o \in Outcomes :
        /\ sent' = Append(sent, Request("download_stock", "vendor", <<>>, o))
        /\ IF o = "ok"
           THEN /\ watch_remnants' = feed
                /\ pc' = "get_offer_ids"
                /\ log' = log
           ELSE /\ watch_remnants' = watch_remnants
                /\ pc' = "crashed"
                /\ log' = "traceback"
    /\ UNCHANGED <<channel, feed, catalog, offer_ids, stocks, prices, todo,
                   harnessVars, fetchVars>>

\* offer_ids = get_offer_ids(campaign_id, market_token)
MarketGetOfferIds ==
    /\ pc = "get_offer_ids"
    /\ \E o \in Outcomes :
        /\ sent' = Append(sent, Request("get_product_list", channel, <<>>, o))
        /\ IF o = "ok"
           THEN /\ offer_ids' = catalog[channel]
                /\ pc' = "create_stocks"
                /\ log' = log
           ELSE /\ offer_ids' = offer_ids
                /\ pc' = "done"
                /\ log' = Printed(o)
    /\ UNCHANGED <<channel, feed, catalog, watch_remnants, stocks, prices,
                   todo, harnessVars, fetchVars>>

\* stocks = create_stocks(watch_remnants, offer_ids, warehouse_id) and the
\* list(divide()) of the for statement
MarketCreateStocks ==
    /\ pc = "create_stocks"
    /\ LET r == market_create_stocks(watch_remnants, offer_ids,
                                     WarehouseOf(channel)) IN
        /\ offer_ids' = r.offer_ids
        /\ IF r.err = "none"
           THEN /\ stocks' = r.stocks
                /\ todo' = divide(r.stocks, MarketStockBatch).chunks
                /\ pc' = IF todo' = <<>> THEN "upload_prices"
                         ELSE "update_stocks"
                /\ log' = log
           ELSE /\ stocks' = stocks
                /\ todo' = todo
                /\ pc' = "done"
                /\ log' = Printed(r.err)
    /\ UNCHANGED <<channel, feed, catalog, watch_remnants, prices, sent,
                   harnessVars, fetchVars>>

\* update_stocks(some_stock, campaign_id, market_token), one loop iteration
MarketUpdateStocks ==
    /\ pc = "update_stocks"
    /\ \E o \in Outcomes :
        /\ sent' = Append(sent, Request("update_stocks", channel, Head(todo), o))
        /\ IF o = "ok"
           THEN /\ todo' = Tail(todo)
                /\ pc' = IF todo' = <<>> THEN "upload_prices"
                         ELSE "update_stocks"
                /\ log' = log
           ELSE /\ todo' = todo
                /\ pc' = "done"
                /\ log' = Printed(o)
    /\ UNCHANGED <<channel, feed, catalog, watch_remnants, offer_ids, stocks,
                   prices, harnessVars, fetchVars>>

\* upload_prices(watch_remnants, campaign_id, market_token): upload_prices
\* is declared async def and main neither awaits the call nor hands it to
\* an event loop, so the call only builds a coroutine object, which is
\* dropped; no statement of the body of upload_prices runs.
MarketUploadPrices ==
    /\ pc = "upload_prices"
    /\ IF channel = Channels[1]
       THEN channel' = Channels[2] /\ pc' = "get_offer_ids"
       ELSE channel' = channel /\ pc' = "done"
    /\ UNCHANGED <<feed, catalog, watch_remnants, offer_ids, stocks, prices,
                   todo, sent, log, harnessVars, fetchVars>>

NextMarket ==
    \/ MarketDownloadStock
    \/ MarketGetOfferIds
    \/ MarketCreateStocks
    \/ MarketUpdateStocks
    \/ MarketUploadPrices

SpecMarket == InitMarket /\ [][NextMarket]_vars

\* the positions in sent of the catalog requests of channel ch
FetchesOf(ch) ==
    {i \in 1..Len(sent) :
         sent[i].req = "get_product_list" /\ sent[i].channel = ch}

\* C4: when a request or a reconciliation of the FBS channel fails, the
\* failure is logged and the catalog of the DBS channel is still fetched.
ClaimC4 ==
    (pc = "done" /\ log # "none" /\ channel = "FBS") => FetchesOf("DBS") # {}

\* the price batches upload_prices is to push for channel ch
PriceBatches(ch) ==
    divide(market_create_prices(feed, catalog[ch]).prices,
           MarketPriceBatch).chunks

PricePushes(ch, before) ==
    [k \in 1..Len(PriceBatches(ch)) |->
        {i \in 1..(before - 1) :
             /\ sent[i].req = "update_price"
             /\ sent[i].channel = ch
             /\ sent[i].ok
             /\ sent[i].body = PriceBatches(ch)[k]}]

\* C5: in a run of market.main in which nothing fails, every price batch
\* of the FBS channel is pushed before the DBS catalog request is issued,
\* and every price batch of the DBS channel before main returns.
ClaimC5 ==
    log = "none" =>
        /\ \A i \in FetchesOf("DBS") :
               \A k \in 1..Len(PriceBatches("FBS")) :
                   PricePushes("FBS", i)[k] # {}
        /\ pc = "done" =>
               \A k \in 1..Len(PriceBatches("DBS")) :
                   PricePushes("DBS", Len(sent) + 1)[k] # {}

-----------------------------------------------------------------------------
(* get_offer_ids (seller.py and market.py): the paginated catalog fetch.   *)
(* An item is kept as the dict of its offer id; what a page holds, the      *)
(* total and the next token are the platform's to choose.                   *)

MaxPage == 2        \* items in one page
MaxFetched == 3     \* items accumulated, and the largest total reported
MaxRequests == 3    \* get_product_list requests of one call

Tokens == {"", "t"}
\* the nextPageToken of a market response; "None" stands for an absent key
PageTokens == Tokens \cup {"None"}

Item(id) == [offer_id |-> id]

\* Python: not page
NotPage(p) == p = "" \/ p = "None"

\* the closing loop: offer_ids of the accumulated items, in order
OfferIdsOf(products) == [k \in 1..Len(products) |-> products[k].offer_id]

InitFetch ==
    /\ HarnessIdle
    /\ pc = "get_product_list"
    /\ channel \in {"OZON", "FBS"}
    /\ feed = <<>>
    /\ catalog = <<>>
    /\ watch_remnants = <<>>
    /\ offer_ids = <<>>
    /\ stocks = <<>>
    /\ prices = <<>>
    /\ todo = <<>>
    /\ sent = <<>>
    /\ log = "none"
    /\ product_list = <<>>
    /\ page = ""
    /\ total = 0

\* the pages a response may hold without passing the bound on product_list
PagesNow ==
    {p \in SeqUpTo(MainCodes, MaxPage) :
         Len(product_list) + Len(p) <= MaxFetched}

\* seller.get_offer_ids, one iteration of `while True`: the request, the
\* extend, and the test total == len(product_list); on break the closing
\* loop and the return
SellerFetchPage ==
    /\ pc = "get_product_list"
    /\ channel = "OZON"
    /\ Len(sent) < MaxRequests
    /\ \E o \in Outcomes :
        /\ sent' = Append(sent, Request("get_product_list", channel, page, o))
        /\ IF o = "ok"
           THEN \E items \in PagesNow, t \in 0..MaxFetched, next \in Tokens :
                /\ product_list' =
                       product_list \o [k \in 1..Len(items) |-> Item(items[k])]
                /\ total' = t
                /\ page' = next
                /\ IF t = Len(product_list')
                   THEN /\ pc' = "returned"
                        /\ offer_ids' = OfferIdsOf(product_list')
                   ELSE /\ pc' = pc
                        /\ offer_ids' = offer_ids
           ELSE /\ pc' = "raised"
                /\ UNCHANGED <<product_list, total, page, offer_ids>>
    /\ UNCHANGED <<channel, feed, catalog, watch_remnants, stocks, prices,
                   todo, log, harnessVars>>

\* market.get_offer_ids, one iteration: the request, the extend, and the
\* test `not page`
MarketFetchPage ==
    /\ pc = "get_product_list"
    /\ channel = "FBS"
    /\ Len(sent) < MaxRequests
    /\ \E o \in Outcomes :
        /\ sent' = Append(sent, Request("get_product_list", channel, page, o))
        /\ IF o = "ok"
           THEN \E items \in PagesNow, next \in PageTokens :
                /\ product_list' =
                       product_list \o [k \in 1..Len(items) |-> Item(items[k])]
                /\ page' = next
                /\ IF NotPage(next)
                   THEN /\ pc' = "returned"
                        /\ offer_ids' = OfferIdsOf(product_list')
                   ELSE /\ pc' = pc
                        /\ offer_ids' = offer_ids
           ELSE /\ pc' = "raised"
                /\ UNCHANGED <<product_list, page, offer_ids>>
    /\ UNCHANGED <<channel, feed, catalog, watch_remnants, stocks, prices,
                   todo, log, total, harnessVars>>

NextFetch == SellerFetchPage \/ MarketFetchPage

SpecFetch == InitFetch /\ [][NextFetch]_vars

\* the loop is about to send another request after an answered one
FetchGoesOn == pc = "get_product_list" /\ sent # <<>>

\* the platform has signalled that there are no more pages
NoMorePages ==
    IF channel = "OZON" THEN Len(product_list) >= total ELSE NotPage(page)

\* C11: get_offer_ids ends once the platform signals no more pages (market:
\* an empty or absent nextPageToken; seller: the accumulated items have
\* reached the reported total), so it never goes on after the signal, and
\* it returns the offer ids of the accumulated items in page order.
ClaimC11 ==
    /\ FetchGoesOn => ~NoMorePages
    /\ pc = "returned" => offer_ids = OfferIdsOf(product_list)

\* What the code does guarantee: the seller loop ends when the accumulated
\* count equals the reported total exactly, the market loop on a falsy
\* token, and the ids returned are those accumulated, in order.
FetchEndsOnExactSignal ==
    /\ FetchGoesOn =>
           IF channel = "OZON" THEN Len(product_list) # total
           ELSE ~NotPage(page)
    /\ pc = "returned" =>
           /\ offer_ids = OfferIdsOf(product_list)
           /\ IF channel = "OZON" THEN Len(product_list) = total
              ELSE NotPage(page)

-----------------------------------------------------------------------------
(* Runs of main on lists long enough to need several batches *)

MaxBatches == 2        \* full stock batches in a catalog

Repeat(x, k) == [i \in 1..k |-> x]
Numbered(k) == [i \in 1..k |-> ToString(i)]

RowA == [code |-> "A", count |-> <<"7">>, price |-> <<"5", "'", "9", ".", "0">>]

\* k full batches of size b, or one record more
BatchSizes(b, most) == {k * b + r : k \in 0..most, r \in {0, 1}}

\* seller.main: r rows of code A against a catalog of r or r + 1 entries A
\* followed by n distinct other ids; create_stocks leaves one entry A or
\* none, so the rows get a price record or do not
InitSellerBatches ==
    /\ HarnessIdle
    /\ FetchIdle
    /\ pc = "get_offer_ids"
    /\ channel = "OZON"
    /\ \E r \in 0..MaxRows,
          d \in {0, 1},
          n \in BatchSizes(SellerStockBatch, MaxBatches) :
        /\ feed = Repeat(RowA, r)
        /\ catalog = [c \in {"OZON"} |-> Repeat("A", r + d) \o Numbered(n)]
    /\ watch_remnants = <<>>
    /\ offer_ids = <<>>
    /\ stocks = <<>>
    /\ prices = <<>>
    /\ todo = <<>>
    /\ sent = <<>>
    /\ log = "none"

InitMarketBatches ==
    /\ HarnessIdle
    /\ FetchIdle
    /\ pc = "download_stock"
    /\ channel = Channels[1]
    /\ \E r \in {0, 1},
          n \in BatchSizes(MarketStockBatch, MaxBatches),
          m \in BatchSizes(MarketStockBatch, 0) :
        /\ feed = Repeat(RowA, r)
        /\ catalog = [c \in {"FBS", "DBS"} |->
                         IF c = "FBS" THEN <<"A">> \o Numbered(n)
                         ELSE Numbered(m)]
    /\ watch_remnants = <<>>
    /\ offer_ids = <<>>
    /\ stocks = <<>>
    /\ prices = <<>>
    /\ todo = <<>>
    /\ sent = <<>>
    /\ log = "none"

InitBatches == InitSellerBatches \/ InitMarketBatches

NextBatches ==
    \/ (channel = "OZON" /\ NextSeller)
    \/ (channel \in {"FBS", "DBS"} /\ NextMarket)

SpecBatches == InitBatches /\ [][NextBatches]_vars

\* the requests of kind req sent for channel ch, in order
RequestsOf(req, ch) ==
    SelectSeq(sent, LAMBDA q : q.req = req /\ q.channel = ch)

\* the stock list main builds for channel ch, and its batches
StockListOf(ch) ==
    IF ch = "OZON" THEN seller_create_stocks(feed, catalog[ch]).stocks
    ELSE market_create_stocks(feed, catalog[ch], WarehouseOf(ch)).stocks

StockBatchesOf(ch) ==
    divide(StockListOf(ch),
           IF ch = "OZON" THEN SellerStockBatch ELSE MarketStockBatch).chunks

\* the i-th request of reqs carries the i-th batch, and no request follows
\* the last batch
InBatchOrder(reqs, batches) ==
    /\ Len(reqs) <= Len(batches)
    /\ \A i \in 1..Len(reqs) : reqs[i].body = batches[i]

\* C12: within a run the batches of a stock or price list go out one per
\* request, in batch order, each at most once; a request that fails is the
\* last request of the run, so the batches before it stay submitted, the
\* failed batch is not sent again and nothing is retried.
TheoremC12 ==
    /\ \A ch \in DOMAIN catalog :
           InBatchOrder(RequestsOf("update_stocks", ch), StockBatchesOf(ch))
    /\ InBatchOrder(RequestsOf("update_price", "OZON"),
                    divide(prices, SellerPriceBatch).chunks)
    /\ \A i \in 1..(Len(sent) - 1) : sent[i].ok
    /\ (sent # <<>> /\ ~sent[Len(sent)].ok) => pc \in {"done", "crashed"}

\* the push of the third stock batch fails after two were submitted
WitnessC12 ==
    /\ pc = "done"
    /\ Len(RequestsOf("update_stocks", channel)) = 3
    /\ Len(StockBatchesOf(channel)) = 3
    /\ sent[Len(sent)].req = "update_stocks"
    /\ ~sent[Len(sent)].ok
    /\ sent[Len(sent) - 1].req = "update_stocks"
    /\ sent[Len(sent) - 1].ok

-----------------------------------------------------------------------------
(* seller.download_stock.  What the vendor site answers, what the archive  *)
(* holds and whether the disk takes the extraction are the environment's:   *)
(*   get     - outcome of session.get and raise_for_status                  *)
(*   zip     - "ok" or "bad": whether the body is a zip archive             *)
(*   member  - ostatki.xls in the archive: "absent", "valid" or "corrupt"   *)
(*   extract - "ok", or extractall fails before or after writing the file   *)
(*   rows    - the rows a valid spreadsheet holds                           *)
(* The directory holds no ostatki.xls when the call starts.                 *)

DownloadInputs ==
    [get : Outcomes,
     zip : {"ok", "bad"},
     member : {"absent", "valid", "corrupt"},
     extract : {"ok", "fails_before", "fails_after"},
     rows : SeqUpTo(MainRows, MaxRows)]

\* the file ostatki.xls after archive.extractall("."): "absent" or what
\* the archive's member holds
Extracted(env) ==
    IF env.extract = "fails_before" THEN "absent" ELSE env.member

\* the outcome: the exception raised ("none" on return), the rows returned
\* and whether ostatki.xls is on disk when the call ends
download_stock(env) ==
    IF env.get # "ok"
    THEN [err |-> env.get, rows |-> <<>>, file |-> "absent"]
    ELSE IF env.zip = "bad"
    THEN [err |-> "BadZipFile", rows |-> <<>>, file |-> "absent"]
    ELSE LET onDisk == IF Extracted(env) = "absent" THEN "absent"
                       ELSE "present"
         IN  IF env.extract # "ok"
             THEN [err |-> "OSError", rows |-> <<>>, file |-> onDisk]
             ELSE IF Extracted(env) = "absent"
             THEN [err |-> "FileNotFoundError", rows |-> <<>>,
                   file |-> onDisk]
             ELSE IF Extracted(env) = "corrupt"
             THEN [err |-> "ValueError", rows |-> <<>>, file |-> onDisk]
             ELSE [err |-> "none", rows |-> env.rows, file |-> "absent"]

InitDownload ==
    /\ call = "none"
    /\ args \in DownloadInputs
    /\ ret = <<>>
    /\ MainIdle

CallDownloadStock ==
    /\ call = "none"
    /\ call' = "download_stock"
    /\ ret' = download_stock(args)
    /\ UNCHANGED <<args, mainVars>>

SpecDownload == InitDownload /\ [][CallDownloadStock]_vars

\* C13: when download_stock has ended, by return or by any exception, the
\* extracted file ostatki.xls is no longer on disk.
ClaimC13 == call = "download_stock" => ret.file = "absent"

\* What the code does guarantee: the file is gone whenever download_stock
\* returns.
DownloadReturnRemovesFile ==
    (call = "download_stock" /\ ret.err = "none") => ret.file = "absent"

-----------------------------------------------------------------------------
(* The caller's list after create_stocks and create_prices *)

\* C14: after create_stocks(V, K) or create_prices(V, K) has returned or
\* failed, the caller's list K holds the same ids in the same order as
\* before the call.
ClaimC14 ==
    (StocksCalled \/ PricesCalled) => ret.offer_ids = args.offer_ids

\* What the code does guarantee: create_prices leaves K as it was.
CreatePricesKeepsK == PricesCalled => ret.offer_ids = args.offer_ids

-----------------------------------------------------------------------------
(* Everything together *)

Init ==
    \/ InitStocks
    \/ InitPrices
    \/ InitDivide
    \/ InitPriceConversion
    \/ InitSeller
    \/ InitMarket
    \/ InitFetch
    \/ InitBatches
    \/ InitDownload

Next ==
    \/ (call = "none" /\ "watch_remnants" \in DOMAIN args
        /\ args.watch_remnants \in Seq(StockRows) /\ NextStocks)
    \/ (call = "none" /\ "watch_remnants" \in DOMAIN args
        /\ args.watch_remnants \in Seq(PriceRows) /\ NextPrices)
    \/ (call = "none" /\ "lst" \in DOMAIN args /\ CallDivide)
    \/ (call = "none" /\ "price" \in DOMAIN args /\ CallPriceConversion)
    \/ (call = "none" /\ "member" \in DOMAIN args /\ CallDownloadStock)
    \/ (channel = "OZON" /\ NextSeller)
    \/ (channel \in {"FBS", "DBS"} /\ NextMarket)
    \/ NextFetch

Spec == Init /\ [][Next]_vars

=============================================================================
